---- MODULE Spec2Model ----
(***************************************************************************)
(* A model of edne_correios_loader/dbwriter.py: the transactional writer   *)
(* DneDatabaseWriter (session scope, table lifecycle, batch loader with    *)
(* topological reordering, audit recorder) and its LogCapture handler.     *)
(*                                                                         *)
(* Values are strings, as in the source (lines: Iterable[List[str]]).      *)
(* Python's None is the string "None", which is no key and no error name.  *)
(***************************************************************************)
EXTENDS Integers, Sequences, FiniteSets, TLC

VARIABLES
    insert_buffer_size, \* DneDatabaseWriter.insert_buffer_size of this writer
    handlers,           \* TRUE iff self.log_capture is among logger.handlers
    log_records,        \* LogCapture.log_records
    conn,               \* self.connection: "unset", "open" or "closed"
    committed,          \* the database as every new connection sees it
    working,            \* the database as self.connection's transaction sees it
    pc,                 \* "idle", "body", "populate" or "exited"
    exc,                \* the exception propagating out of the scope's body
    pop,                \* the locals of the populate_table call in progress
    calls,              \* statements the last operation issued on self.connection
    consumed,           \* elements the last populate_table took from its iterable
    exitInfo,           \* what the last __exit__ did
    atEntry,            \* the database when the current scope was entered
    scopes,             \* scopes entered so far
    ops,                \* operations called on the writer so far
    sinkAtEntry,        \* records the sink held when the current scope was entered
    peer,               \* a second writer of the same process: its scope and its sink
    events              \* diagnostic events other components have emitted so far

vars == <<insert_buffer_size, handlers, log_records, conn, committed, working,
          pc, exc, pop, calls, consumed, exitInfo, atEntry, scopes, ops,
          sinkAtEntry, peer, events>>

----------------------------------------------------------------------------
(* Bounds of the exploration *)

MaxBufferSize == 2   \* buffer capacities explored: 1..MaxBufferSize
MaxScopes == 2       \* scopes one writer enters
MaxOps == 2          \* operations called on one writer
MaxPlainRows == 5    \* rows given to populate_table for the table without a self reference
MaxTreeRows == 3     \* rows given to populate_table for the self-referencing table
BigRows == 2500      \* rows of the one long input, loaded with the default capacity
MaxEvents == 3       \* diagnostic events other components emit
MaxPeerOps == 1      \* operations called on the second writer

----------------------------------------------------------------------------
(* Python values *)

\* DneDatabaseWriter.insert_buffer_size as the class sets it
DefaultBufferSize == 1000

None == "None"

Min(a, b) == IF a < b THEN a ELSE b

\* mutant of Reversed: the list is walked in the order given
InOrder(s) == s

RECURSIVE Reversed(_)
Reversed(s) == IF s = <<>> THEN <<>> ELSE Append(Reversed(Tail(s)), Head(s))

RECURSIVE Join(_, _)
\* sep.join(parts)
Join(parts, sep) ==
    IF parts = <<>> THEN ""
    ELSE IF Len(parts) = 1 THEN parts[1]
    ELSE parts[1] \o sep \o Join(Tail(parts), sep)

\* Errors are named by their Python class: KeyError is the spec's NotFound,
\* DBAPIError (any error the database driver raises) its ConstraintViolation,
\* RuntimeError stands for an error the caller's own code raises.

----------------------------------------------------------------------------
(* The schema registry: metadata.tables *)

PlainTable == "log_bairro"
TreeTable == "log_localidade"
AuditTable == "log_dne_update"
GhostTable == "ghost"

MetadataTables == {PlainTable, TreeTable, AuditTable}

Columns(t) ==
    CASE t = PlainTable -> <<"bai_nu", "loc_nu">>
      [] t = TreeTable -> <<"loc_nu", "loc_no", "loc_nu_sub">>
      [] t = AuditTable -> <<"update_date", "logs">>

\* table.foreign_keys as <<parent column, referenced table>> pairs
ForeignKeys(t) ==
    CASE t = PlainTable -> {<<"loc_nu", TreeTable>>}
      [] t = TreeTable -> {<<"loc_nu_sub", TreeTable>>}
      [] t = AuditTable -> {}

----------------------------------------------------------------------------
(* The database: which tables exist and the rows each holds, in insertion  *)
(* order.  A row is a function from column names to values.                *)

EmptyDB == [exists |-> {}, rows |-> [t \in MetadataTables |-> <<>>]]

SeqToSet(s) == {s[i] : i \in 1..Len(s)}

\* a database loaded by an earlier run
LoadedDB ==
    [exists |-> MetadataTables,
     rows |-> [t \in MetadataTables |->
                 CASE t = PlainTable -> <<[bai_nu |-> "7", loc_nu |-> "1"]>>
                   [] t = TreeTable -> <<[loc_nu |-> "7", loc_no |-> "n", loc_nu_sub |-> None]>>
                   [] t = AuditTable -> <<>>]]

\* connection.execute(table.insert(), batch): the database may reject any
\* insert (a constraint violation, a lost connection) and accepts one only
\* into an existing table
ExecInsert(db, t, batch) ==
    {[db |-> db, err |-> "DBAPIError"]}
    \cup
    (IF t \in db.exists
     THEN {[db |-> [db EXCEPT !.rows[t] = @ \o batch], err |-> None]}
     ELSE {})

\* connection.execute(table.delete())
ExecDelete(db, t) ==
    {[db |-> db, err |-> "DBAPIError"],
     [db |-> [db EXCEPT !.rows[t] = <<>>], err |-> None]}

\* table.drop(connection, checkfirst=True) of a table that exists
ExecDrop(db, t) ==
    {[db |-> db, err |-> "DBAPIError"],
     [db |-> [db EXCEPT !.exists = @ \ {t}, !.rows[t] = <<>>], err |-> None]}

----------------------------------------------------------------------------
(* LogCapture *)

\* logging.Formatter('%(levelname)s: %(message)s').format(record)
Format(level, msg) == level \o ": " \o msg

\* LogCapture.get_logs
get_logs(records) == Join(records, "\n")

\* mutant of Emit: emit assigns a new list instead of appending to the old
EmitReplacing(records, attached, msgs) ==
    IF attached /\ msgs # <<>>
    THEN [i \in 1..Len(msgs) |-> Format("INFO", msgs[i])]
    ELSE records

\* logger.info(...) for each message of msgs, in order: LogCapture.emit runs
\* only while the handler is among logger.handlers
Emit(records, attached, msgs) ==
    IF attached
    THEN records \o [i \in 1..Len(msgs) |-> Format("INFO", msgs[i])]
    ELSE records

\* logger = logging.getLogger(__name__): the one logger the handler is added to
ModuleLogger == "edne_correios_loader.dbwriter"

\* the logger of another module of the package; its records pass to its own
\* handlers and to those of its ancestors, of which ModuleLogger is none
OtherLogger == "edne_correios_loader.loader"

Loggers == {ModuleLogger, OtherLogger}

\* the sink after a record of this level is logged on the logger named channel
Handle(records, attached, channel, level, msg) ==
    IF attached /\ channel = ModuleLogger
    THEN Append(records, Format(level, msg))
    ELSE records

\* the events other components emit, in the order they emit them
Events ==
    <<[level |-> "INFO", msg |-> "a"], [level |-> "INFO", msg |-> "b"],
      [level |-> "ERROR", msg |-> "c"]>>

\* a second DneDatabaseWriter of the process, on a database of its own that is
\* not followed here: where its scope is, its handler and its sink
NoPeer == [pc |-> "absent", handlers |-> FALSE, log_records |-> <<>>, ops |-> 0]

\* the second writer's handler is on the same logger: it receives what this
\* module logs while it is attached
Heard(w, msgs) == [w EXCEPT !.log_records = Emit(@, w.handlers, msgs)]

----------------------------------------------------------------------------
(* Session scope: __init__, __enter__, __exit__ *)

NoExit == [txn |-> "none", ok |-> TRUE, raised |-> None]
\* no populate_table call yet.  input is the iterable the caller passed, lines
\* the rows the loop iterates, count the loop variable (<<>> while unbound),
\* peak the longest the buffer has been
NoPop == [table_name |-> None, input |-> <<>>, lines |-> <<>>, idx |-> 0,
          buffer |-> <<>>, count |-> <<>>, peak |-> 0]

\* populate_table called with these arguments
PopCalled(table_name, lines) ==
    [NoPop EXCEPT !.table_name = table_name, !.input = lines]

\* mutant of MissingTable: an unknown name is passed over in silence
MissingTableIgnored == None

\* the error metadata.tables[name] raises for a name it does not hold
MissingTable == "KeyError"

\* the table lists a caller gives to the lifecycle operations: in dependency
\* order and against it, with and without the audit table, with a name the
\* registry does not hold
NameLists ==
    {<<>>, <<TreeTable>>, <<PlainTable>>, <<GhostTable>>,
     <<TreeTable, PlainTable>>, <<PlainTable, TreeTable>>,
     <<TreeTable, GhostTable>>, <<TreeTable, PlainTable, AuditTable>>}

\* DneDatabaseWriter(database_url): the handler is attached at construction
InitWriter(sizes, databases) ==
    /\ insert_buffer_size \in sizes
    /\ committed \in databases
    /\ handlers = TRUE
    /\ log_records = <<>>
    /\ conn = "unset"
    /\ working = committed
    /\ pc = "idle"
    /\ exc = None
    /\ pop = NoPop
    /\ calls = <<>>
    /\ consumed = 0
    /\ exitInfo = NoExit
    /\ atEntry = committed
    /\ scopes = 0
    /\ ops = 0
    /\ sinkAtEntry = 0
    /\ peer = NoPeer
    /\ events = 0

\* __enter__
Enter ==
    /\ pc \in {"idle", "exited"}
    /\ scopes < MaxScopes
    /\ log_records' = Emit(log_records, handlers, <<"Connecting to database...">>)
    /\ peer' = Heard(peer, <<"Connecting to database...">>)
    /\ sinkAtEntry' = Len(log_records)
    /\ conn' = "open"
    /\ working' = committed
    /\ atEntry' = committed
    /\ pc' = "body"
    /\ exc' = None
    /\ calls' = <<>>
    /\ exitInfo' = NoExit
    /\ scopes' = scopes + 1
    /\ UNCHANGED <<insert_buffer_size, handlers, committed, pop, consumed, ops, events>>

\* the body of the with statement raises an error of its own
CallerRaises ==
    /\ pc = "body"
    /\ exc = None
    /\ exc' = "RuntimeError"
    /\ UNCHANGED <<insert_buffer_size, handlers, log_records, conn, committed,
                   working, pc, pop, calls, consumed, exitInfo, atEntry, scopes, ops,
                   sinkAtEntry, peer, events>>

\* mutant of TxnCall: the branches of the test are swapped
TxnCallSwapped(exc_val) == IF exc_val # None THEN "commit" ELSE "rollback"

\* __exit__ lines 51-55: which call ends the transaction
TxnCall(exc_val) == IF exc_val # None THEN "rollback" ELSE "commit"

\* mutant of TxnEnd: a rollback that keeps the transaction's changes
TxnEndKeepsChanges(txn, db, view) == view

\* the database after connection.commit() or connection.rollback() returned
TxnEnd(txn, db, view) == IF txn = "commit" THEN view ELSE db

\* __exit__ returns None, so the exception passed in propagates to the caller
Propagates(exc_val) == exc_val

\* __exit__: the commit or the rollback may itself raise, and then the lines
\* after it do not run
Exit ==
    /\ pc = "body"
    /\ LET txn == TxnCall(exc)
       IN  \/ /\ committed' = TxnEnd(txn, committed, working)
              /\ working' = committed'
              /\ conn' = "closed"
              /\ handlers' = FALSE
              /\ exitInfo' = [txn |-> txn, ok |-> TRUE, raised |-> Propagates(exc)]
           \/ /\ exitInfo' = [txn |-> txn, ok |-> FALSE, raised |-> "DBAPIError"]
              /\ working' = committed
              /\ UNCHANGED <<committed, conn, handlers>>
    /\ pc' = "exited"
    /\ UNCHANGED <<insert_buffer_size, log_records, exc, pop, calls, consumed,
                   atEntry, scopes, ops, sinkAtEntry, peer, events>>

----------------------------------------------------------------------------
(* Table lifecycle: create_tables, clean_tables, drop_tables *)

\* the state an operation threads through its statements: the transaction's
\* view, the messages logged, the statements issued, the error raised
OpStart(db) == [db |-> db, msgs |-> <<>>, calls |-> <<>>, err |-> None]

\* metadata.create_all(self.engine, tables=...): runs on a connection of its
\* own, checks each table first and commits what it creates
CreateAll(db, names) ==
    [db EXCEPT !.exists = @ \cup SeqToSet(names)]

\* create_tables, lines 62-66: the database after it, as new connections and
\* as self.connection see it
create_tables(names, db, view) ==
    IF \E i \in 1..Len(names) : names[i] \notin MetadataTables
    THEN {[db |-> db, view |-> view, msgs |-> <<>>, err |-> MissingTable]}
    ELSE LET msg == "Creating tables:\n"
                    \o Join([i \in 1..Len(names) |-> "- " \o names[i]], "\n")
             new == {names[i] : i \in {j \in 1..Len(names) : names[j] \notin db.exists}}
         IN {[db |-> db, view |-> view, msgs |-> <<msg>>, err |-> "DBAPIError"],
             [db |-> CreateAll(db, names),
              view |-> [view EXCEPT !.exists = @ \cup new],
              msgs |-> <<msg>>, err |-> None]}

CreateTables(names) ==
    /\ pc = "body" /\ exc = None /\ ops < MaxOps
    /\ \E out \in create_tables(names, committed, working) :
          /\ committed' = out.db
          /\ working' = out.view
          /\ log_records' = Emit(log_records, handlers, out.msgs)
          /\ peer' = Heard(peer, out.msgs)
          /\ exc' = out.err
    /\ calls' = <<>>
    /\ ops' = ops + 1
    /\ UNCHANGED <<insert_buffer_size, handlers, conn, pc, pop, consumed,
                   exitInfo, atEntry, scopes, sinkAtEntry, events>>

RECURSIVE clean_loop(_, _)
\* clean_tables, lines 72-84, for the tables still to visit
clean_loop(names, st) ==
    IF names = <<>> THEN {st}
    ELSE LET t == Head(names)
             counted == [st EXCEPT !.calls = Append(@, <<"count", t>>)]
         IN  IF t \notin MetadataTables THEN {[st EXCEPT !.err = MissingTable]}
             ELSE IF t \notin st.db.exists THEN {[counted EXCEPT !.err = "DBAPIError"]}
             ELSE IF Len(st.db.rows[t]) = 0 THEN clean_loop(Tail(names), counted)
             ELSE LET logged == [counted EXCEPT
                                   !.msgs = Append(@, "Deleting " \o ToString(Len(st.db.rows[t]))
                                                       \o " rows from table " \o t),
                                   !.calls = Append(@, <<"delete", t>>)]
                  IN UNION {IF r.err # None THEN {[logged EXCEPT !.err = r.err]}
                            ELSE clean_loop(Tail(names), [logged EXCEPT !.db = r.db])
                            : r \in ExecDelete(st.db, t)}

\* clean_tables
clean_tables(names, db) ==
    clean_loop(Reversed(names), [OpStart(db) EXCEPT !.msgs = <<"Cleaning tables">>])

RECURSIVE drop_loop(_, _)
\* drop_tables, lines 90-92, for the tables still to visit
drop_loop(names, st) ==
    IF names = <<>> THEN {st}
    ELSE LET t == Head(names)
             logged == [st EXCEPT !.msgs = Append(@, "Dropping table " \o t)]
         IN  IF t \notin MetadataTables THEN {[logged EXCEPT !.err = MissingTable]}
             ELSE IF t \notin st.db.exists THEN drop_loop(Tail(names), logged)
             ELSE LET issued == [logged EXCEPT !.calls = Append(@, <<"drop", t>>)]
                  IN UNION {IF r.err # None THEN {[issued EXCEPT !.err = r.err]}
                            ELSE drop_loop(Tail(names), [issued EXCEPT !.db = r.db])
                            : r \in ExecDrop(st.db, t)}

\* mutant of drop_tables: the test of the list is missing
drop_tables_untested(names, db) ==
    drop_loop(Reversed(names), [OpStart(db) EXCEPT !.msgs = <<"Dropping tables">>])

\* drop_tables
drop_tables(names, db) ==
    IF names = <<>> THEN {OpStart(db)}
    ELSE drop_loop(Reversed(names), [OpStart(db) EXCEPT !.msgs = <<"Dropping tables">>])

\* an operation that runs on self.connection only
Apply(out) ==
    /\ working' = out.db
    /\ log_records' = Emit(log_records, handlers, out.msgs)
    /\ peer' = Heard(peer, out.msgs)
    /\ calls' = out.calls
    /\ exc' = out.err
    /\ ops' = ops + 1
    /\ UNCHANGED <<insert_buffer_size, handlers, conn, committed, pc, pop,
                   consumed, exitInfo, atEntry, scopes, sinkAtEntry, events>>

CleanTables(names) ==
    /\ pc = "body" /\ exc = None /\ ops < MaxOps
    /\ \E out \in clean_tables(names, working) : Apply(out)

DropTables(names) ==
    /\ pc = "body" /\ exc = None /\ ops < MaxOps
    /\ \E out \in drop_tables(names, working) : Apply(out)

----------------------------------------------------------------------------
(* Audit recorder and the unified-table hook *)

\* mutant of register_update: the logs are read before the first message is
\* logged
register_update_reads_first(db, records, attached) ==
    LET row == [update_date |-> "now", logs |-> get_logs(records)]
        st == [OpStart(db) EXCEPT !.msgs = <<"Recording DNE database update">>,
                                  !.calls = <<<<"insert", AuditTable, <<row>>>>>>]
    IN {IF r.err # None THEN [st EXCEPT !.err = r.err]
        ELSE [st EXCEPT !.db = r.db, !.msgs = Append(@, "Update successfully recorded")]
        : r \in ExecInsert(db, AuditTable, <<row>>)}

\* register_update: the first message is logged before the logs are read
register_update(db, records, attached) ==
    LET logs == get_logs(Emit(records, attached, <<"Recording DNE database update">>))
        row == [update_date |-> "now", logs |-> logs]
        st == [OpStart(db) EXCEPT !.msgs = <<"Recording DNE database update">>,
                                  !.calls = <<<<"insert", AuditTable, <<row>>>>>>]
    IN {IF r.err # None THEN [st EXCEPT !.err = r.err]
        ELSE [st EXCEPT !.db = r.db, !.msgs = Append(@, "Update successfully recorded")]
        : r \in ExecInsert(db, AuditTable, <<row>>)}

RegisterUpdate ==
    /\ pc = "body" /\ exc = None /\ ops < MaxOps
    /\ \E out \in register_update(working, log_records, handlers) : Apply(out)

\* populate_unified_table: the collaborator is opaque; it succeeds without
\* touching the tables of this model or fails
populate_unified_table(db) ==
    LET st == [OpStart(db) EXCEPT !.msgs = <<"Populating unified CEP table">>]
    IN {st, [st EXCEPT !.err = "DBAPIError"]}

PopulateUnifiedTable ==
    /\ pc = "body" /\ exc = None /\ ops < MaxOps
    /\ \E out \in populate_unified_table(working) : Apply(out)

----------------------------------------------------------------------------
(* The rest of the process: other components that log, a second writer     *)

\* a component logs its next event on the logger named channel
ProcessEmits(channel) ==
    /\ events < MaxEvents
    /\ LET ev == Events[(events % Len(Events)) + 1]
       IN  /\ log_records' = Handle(log_records, handlers, channel, ev.level, ev.msg)
           /\ peer' = [peer EXCEPT !.log_records =
                           Handle(@, peer.handlers, channel, ev.level, ev.msg)]
    /\ events' = events + 1
    /\ UNCHANGED <<insert_buffer_size, handlers, conn, committed, working, pc, exc,
                   pop, calls, consumed, exitInfo, atEntry, scopes, ops, sinkAtEntry>>

\* with DneDatabaseWriter(url) as second: __init__ attaches its handler,
\* __enter__ logs
PeerEnter ==
    /\ peer.pc = "absent"
    /\ peer' = Heard([peer EXCEPT !.pc = "body", !.handlers = TRUE],
                     <<"Connecting to database...">>)
    /\ log_records' = Emit(log_records, handlers, <<"Connecting to database...">>)
    /\ UNCHANGED <<insert_buffer_size, handlers, conn, committed, working, pc, exc,
                   pop, calls, consumed, exitInfo, atEntry, scopes, ops, sinkAtEntry,
                   events>>

\* second.populate_unified_table(): what it logs
PeerOperation ==
    /\ peer.pc = "body"
    /\ peer.ops < MaxPeerOps
    /\ \E out \in populate_unified_table(working) :
          /\ peer' = [Heard(peer, out.msgs) EXCEPT !.ops = @ + 1]
          /\ log_records' = Emit(log_records, handlers, out.msgs)
    /\ UNCHANGED <<insert_buffer_size, handlers, conn, committed, working, pc, exc,
                   pop, calls, consumed, exitInfo, atEntry, scopes, ops, sinkAtEntry,
                   events>>

\* the second writer's __exit__: its handler is removed unless the commit raised
PeerExit ==
    /\ peer.pc = "body"
    /\ \/ peer' = [peer EXCEPT !.pc = "exited", !.handlers = FALSE]
       \/ peer' = [peer EXCEPT !.pc = "exited"]
    /\ UNCHANGED <<insert_buffer_size, handlers, log_records, conn, committed, working,
                   pc, exc, pop, calls, consumed, exitInfo, atEntry, scopes, ops,
                   sinkAtEntry, events>>

----------------------------------------------------------------------------
(* Batch loader: populate_table, find_self_referencing_fks,                *)
(* sort_topologically                                                      *)

\* dict(zip(columns, line)): zip stops at the shorter of the two
Bind(columns, line) ==
    LET n == Min(Len(columns), Len(line))
    IN  [c \in {columns[i] : i \in 1..n} |->
            line[CHOOSE i \in 1..n : columns[i] = c]]

\* find_self_referencing_fks: the parent column of a foreign key that
\* references the table itself (the registry has at most one per table)
find_self_referencing_fks(t) ==
    LET self == {fk \in ForeignKeys(t) : fk[2] = t}
    IN  IF self = {} THEN None ELSE (CHOOSE fk \in self : TRUE)[1]

\* columns.index(name), counted from 1
IndexOf(seq, x) == CHOOSE i \in 1..Len(seq) : seq[i] = x /\ \A j \in 1..(i - 1) : seq[j] # x

\* lines 178-181: key -> set of the parent values of the rows with that key
TopologicalGraph(lines, fk_index) ==
    [k \in {lines[i][1] : i \in 1..Len(lines)} |->
        {lines[i][fk_index] : i \in {j \in 1..Len(lines) : lines[j][1] = k}}]

\* every node of the graph: the keys and the values they depend on
Nodes(graph) == DOMAIN graph \cup UNION {graph[k] : k \in DOMAIN graph}

Predecessors(graph, n) == IF n \in DOMAIN graph THEN graph[n] ELSE {}

RECURSIVE Reach(_, _, _)
\* the nodes reached from the nodes of front along predecessor edges
Reach(graph, front, seen) ==
    LET next == UNION {Predecessors(graph, n) : n \in front} \ seen
    IN  IF next = {} THEN seen ELSE Reach(graph, next, seen \cup next)

\* TopologicalSorter.prepare finds a cycle: some node depends on itself
HasCycle(graph) ==
    \E n \in Nodes(graph) : n \in Reach(graph, {n}, {})

RECURSIVE Orders(_, _)
\* the orders graphlib's TopologicalSorter.static_order can yield: every node
\* after all of its predecessors (which of them depends on set iteration
\* order, so each is possible)
Orders(graph, placed) ==
    LET left == Nodes(graph) \ SeqToSet(placed)
        ready == {n \in left : Predecessors(graph, n) \subseteq SeqToSet(placed)}
    IN  IF left = {} THEN {placed}
        ELSE UNION {Orders(graph, Append(placed, n)) : n \in ready}

\* mutant of SortedBy: the rows keep their input order
Unsorted(lines, sorted_map) == lines

RECURSIVE SortedByFirst(_, _)
\* mutant of SortedBy: one row is kept for each key
SortedByFirst(lines, sorted_map) ==
    IF sorted_map = <<>> THEN <<>>
    ELSE LET same == SelectSeq(lines, LAMBDA line : line[1] = Head(sorted_map))
         IN  (IF same = <<>> THEN <<>> ELSE <<Head(same)>>)
             \o SortedByFirst(SelectSeq(lines, LAMBDA line : line[1] # Head(sorted_map)),
                              Tail(sorted_map))

RECURSIVE SortedBy(_, _)
\* sorted(lines, key=lambda line: sorted_map.index(line[0])): stable
SortedBy(lines, sorted_map) ==
    IF sorted_map = <<>> THEN <<>>
    ELSE SelectSeq(lines, LAMBDA line : line[1] = Head(sorted_map))
         \o SortedBy(SelectSeq(lines, LAMBDA line : line[1] # Head(sorted_map)),
                     Tail(sorted_map))

\* mutant of sort_topologically: a sorter that does not look for cycles and
\* leaves the rows of a cyclic graph as they came
SortIgnoringCycles(lines, self_referencing_fk, columns) ==
    LET fk_index == IndexOf(columns, self_referencing_fk)
    IN  IF \E i \in 1..Len(lines) : Len(lines[i]) < fk_index
        THEN {[lines |-> lines, err |-> "IndexError"]}
        ELSE LET graph == TopologicalGraph(lines, fk_index)
             IN  IF HasCycle(graph)
                 THEN {[lines |-> lines, err |-> None]}
                 ELSE {[lines |-> SortedBy(lines, o), err |-> None] : o \in Orders(graph, <<>>)}

\* sort_topologically: the reordered rows it can return, or the error raised
sort_topologically(lines, self_referencing_fk, columns) ==
    LET fk_index == IndexOf(columns, self_referencing_fk)
    IN  IF \E i \in 1..Len(lines) : Len(lines[i]) < fk_index
        THEN {[lines |-> lines, err |-> "IndexError"]}
        ELSE LET graph == TopologicalGraph(lines, fk_index)
             IN  IF HasCycle(graph)
                 THEN {[lines |-> lines, err |-> "CycleError"]}
                 ELSE {[lines |-> SortedBy(lines, o), err |-> None] : o \in Orders(graph, <<>>)}

\* populate_table, lines 95-106: up to the loop
PopulateBegin(table_name, lines) ==
    /\ pc = "body" /\ exc = None /\ ops < MaxOps
    /\ log_records' = Emit(log_records, handlers, <<"Populating table " \o table_name>>)
    /\ peer' = Heard(peer, <<"Populating table " \o table_name>>)
    /\ calls' = <<>>
    /\ ops' = ops + 1
    /\ IF table_name \notin MetadataTables
       THEN /\ exc' = MissingTable
            /\ consumed' = 0
            /\ pop' = PopCalled(table_name, lines)
            /\ pc' = "body"
       ELSE LET fk == find_self_referencing_fks(table_name)
            IN  IF fk = None
                THEN /\ pop' = [PopCalled(table_name, lines) EXCEPT !.lines = lines]
                     /\ consumed' = 0
                     /\ pc' = "populate"
                     /\ exc' = None
                ELSE \E r \in sort_topologically(lines, fk, Columns(table_name)) :
                        /\ consumed' = Len(lines)
                        /\ exc' = r.err
                        /\ pop' = IF r.err = None
                                  THEN [PopCalled(table_name, lines) EXCEPT !.lines = r.lines]
                                  ELSE PopCalled(table_name, lines)
                        /\ pc' = IF r.err = None THEN "populate" ELSE "body"
    /\ UNCHANGED <<insert_buffer_size, handlers, conn, committed, working,
                   exitInfo, atEntry, scopes, sinkAtEntry, events>>

\* mutant of BufferFull: the comparison is off by one
BufferFullLate(buffer, size) == Len(buffer) > size

\* whether the buffer is flushed after an append (line 111)
BufferFull(buffer, size) == Len(buffer) >= size

\* mutant of Cleared: the flushed rows stay in the buffer
ClearedKeepsRows(buffer) == buffer

\* buffer = [] after a flush (line 113)
Cleared(buffer) == <<>>

\* populate_table, lines 108-113: one turn of the loop
PopulateStep ==
    /\ pc = "populate"
    /\ pop.idx < Len(pop.lines)
    /\ LET line == pop.lines[pop.idx + 1]
           buffer == Append(pop.buffer, Bind(Columns(pop.table_name), line))
           taken == [pop EXCEPT !.idx = @ + 1, !.count = <<pop.idx + 1>>,
                                !.peak = IF Len(buffer) > @ THEN Len(buffer) ELSE @]
       IN  /\ consumed' = IF consumed > pop.idx THEN consumed ELSE pop.idx + 1
           /\ IF BufferFull(buffer, insert_buffer_size)
              THEN /\ calls' = Append(calls, <<"insert", pop.table_name, buffer>>)
                   /\ \E r \in ExecInsert(working, pop.table_name, buffer) :
                        /\ working' = r.db
                        /\ exc' = r.err
                        /\ pc' = IF r.err = None THEN "populate" ELSE "body"
                        /\ pop' = IF r.err = None THEN [taken EXCEPT !.buffer = Cleared(buffer)]
                                  ELSE [taken EXCEPT !.buffer = buffer]
              ELSE /\ pop' = [taken EXCEPT !.buffer = buffer]
                   /\ UNCHANGED <<calls, working, exc, pc>>
    /\ UNCHANGED <<insert_buffer_size, handlers, log_records, conn, committed,
                   exitInfo, atEntry, scopes, ops, sinkAtEntry, peer, events>>

\* populate_table, lines 115-123: after the loop.  count is bound by the
\* loop, so it is unbound when the loop body never ran
PopulateFinish ==
    /\ pc = "populate"
    /\ pop.idx = Len(pop.lines)
    /\ pc' = "body"
    /\ \E r \in (IF pop.buffer # <<>>
                 THEN ExecInsert(working, pop.table_name, pop.buffer)
                 ELSE {[db |-> working, err |-> None]}) :
          /\ working' = r.db
          /\ calls' = IF pop.buffer # <<>>
                      THEN Append(calls, <<"insert", pop.table_name, pop.buffer>>)
                      ELSE calls
          /\ IF r.err # None
             THEN exc' = r.err /\ UNCHANGED <<log_records, peer>>
             ELSE IF pop.count = <<>>
             THEN exc' = "UnboundLocalError" /\ UNCHANGED <<log_records, peer>>
             ELSE LET msg == "Inserted " \o ToString(pop.count[1])
                             \o " rows into table \"" \o pop.table_name \o "\""
                  IN  /\ exc' = None
                      /\ log_records' = Emit(log_records, handlers, <<msg>>)
                      /\ peer' = Heard(peer, <<msg>>)
    /\ UNCHANGED <<insert_buffer_size, handlers, conn, committed, pop, consumed,
                   exitInfo, atEntry, scopes, ops, sinkAtEntry, events>>

----------------------------------------------------------------------------
(* The rows a caller supplies *)

PlainRows == {<<"1", "1">>, <<"2", "1">>}
\* rows with a value too few and a value too many
BadPlainRows == {<<"1">>, <<"1", "1", "x">>}

TreeKeys == {"1", "2"}
\* the parent pointer: null, a key, or a key no row of the input has
TreeRows == {<<k, "n", p>> : k \in TreeKeys, p \in TreeKeys \cup {None, "9"}}
BadTreeRows == {<<"1", "n">>, <<"1", "n", None, "x">>}

SeqsUpTo(S, n) == UNION {[1..k -> S] : k \in 0..n}

\* the inputs of the batch loader's own specification
PopInputs ==
    ({PlainTable} \X SeqsUpTo(PlainRows \cup BadPlainRows, MaxPlainRows))
    \cup ({TreeTable} \X SeqsUpTo(TreeRows \cup BadTreeRows, MaxTreeRows))
    \cup ({GhostTable} \X SeqsUpTo(PlainRows, 1))

\* a long input of distinct rows
BigInput == [i \in 1..BigRows |-> <<ToString(i), "1">>]

\* the inputs populate_table gets in the session specification
SessionInputs ==
    {<<PlainTable, <<>>>>, <<PlainTable, <<<<"1", "1">>>>>>,
     <<TreeTable, <<<<"1", "n", None>>>>>>, <<TreeTable, <<<<"1", "n", "1">>>>>>,
     <<GhostTable, <<<<"1", "1">>>>>>}

----------------------------------------------------------------------------
(* Specifications *)

\* one writer with the class's capacity, on a database without tables or one
\* an earlier run has loaded, used for up to MaxScopes scopes and MaxOps
\* operations
Init == InitWriter({DefaultBufferSize}, {EmptyDB, LoadedDB})

Next ==
    \/ Enter
    \/ Exit
    \/ CallerRaises
    \/ \E names \in NameLists : CreateTables(names)
    \/ \E names \in NameLists : CleanTables(names)
    \/ \E names \in NameLists : DropTables(names)
    \/ \E in \in SessionInputs : PopulateBegin(in[1], in[2])
    \/ PopulateStep
    \/ PopulateFinish
    \/ RegisterUpdate
    \/ PopulateUnifiedTable

Spec == Init /\ [][Next]_vars

\* one scope on a loaded database, with one populate_table call; the capacity
\* is the class's or a small one set on the writer
InitPop == InitWriter((1..MaxBufferSize) \cup {DefaultBufferSize}, {LoadedDB})

NextPop ==
    \/ scopes = 0 /\ Enter
    \/ Exit
    \/ ops = 0 /\ pc = "body" /\ \E in \in PopInputs : PopulateBegin(in[1], in[2])
    \/ insert_buffer_size = DefaultBufferSize /\ ops = 0 /\ PopulateBegin(PlainTable, BigInput)
    \/ PopulateStep
    \/ PopulateFinish

SpecPop == InitPop /\ [][NextPop]_vars

\* the table lists of the lifecycle's own specification: those of NameLists
\* and lists that name a table twice
LifeLists ==
    NameLists \cup {<<PlainTable, PlainTable>>, <<PlainTable, TreeTable, PlainTable>>}

\* the table lifecycle in one scope: up to MaxOps create_tables, clean_tables
\* and drop_tables calls
NextLife ==
    \/ scopes = 0 /\ Enter
    \/ Exit
    \/ \E names \in LifeLists : CreateTables(names)
    \/ \E names \in LifeLists : CleanTables(names)
    \/ \E names \in LifeLists : DropTables(names)

SpecLife == Init /\ [][NextLife]_vars

\* the writer's logging among the rest of the process: while a scope is open
\* and before the writer's first operation, other components log on either
\* logger and then a second writer opens a scope of its own
InitLog == InitWriter({DefaultBufferSize}, {LoadedDB})

NextLog ==
    \/ Enter
    \/ Exit
    \/ RegisterUpdate
    \/ pc = "body" /\ ops = 0 /\ peer.pc = "absent"
          /\ \E channel \in Loggers : ProcessEmits(channel)
    \/ pc = "body" /\ ops = 0 /\ PeerEnter
    \/ pc = "body" /\ PeerOperation
    \/ pc = "body" /\ PeerExit

SpecLog == InitLog /\ [][NextLog]_vars

----------------------------------------------------------------------------
(* Session scope claims, checked under Spec *)

Logged(msg) == \E i \in 1..Len(log_records) : log_records[i] = Format("INFO", msg)

\* C1: __exit__ issues commit exactly when the body raised nothing and
\* rollback exactly when it raised; a commit that returns makes the
\* transaction's changes the stored state and nothing propagates, a rollback
\* that returns leaves the stored state alone and the body's error
\* propagates to the caller; when the body raised, the caller always gets an
\* error.
C1_ExitCommitsOrRollsBack ==
    [][(pc = "body" /\ pc' = "exited") =>
         /\ (exc = None) <=> (exitInfo'.txn = "commit")
         /\ (exc # None) <=> (exitInfo'.txn = "rollback")
         /\ exc = None /\ exitInfo'.ok => committed' = working /\ exitInfo'.raised = None
         /\ exc # None => exitInfo'.raised # None
         /\ exc # None /\ exitInfo'.ok => committed' = committed /\ exitInfo'.raised = exc
      ]_vars

\* a scope whose populate_table raised CycleError was rolled back and the
\* caller got the CycleError
C1_Witness ==
    /\ pc = "exited"
    /\ exc = "CycleError"
    /\ exitInfo = [txn |-> "rollback", ok |-> TRUE, raised |-> "CycleError"]

\* C2: when the scope has exited with an error of its body, every table
\* stores the rows it stored at scope entry (deletions and insertions are
\* undone, the audit table has no new entry).
C2_FailedScopeRestoresRows ==
    pc = "exited" /\ exc # None =>
        \A t \in MetadataTables : committed.rows[t] = atEntry.rows[t]

\* the first scope of a writer cleaned a loaded table, then failed, and the
\* table's row is still stored
C2_Witness ==
    /\ pc = "exited"
    /\ scopes = 1
    /\ ops = 2
    /\ exc # None
    /\ exitInfo.ok
    /\ Logged("Deleting 1 rows from table " \o PlainTable)
    /\ committed.rows[PlainTable] # <<>>

\* C3 as claimed: after a scope that exited with the error of one of its
\* operations, the tables the scope created no longer exist (the database
\* holds the tables it held at scope entry).
C3_CreatedTablesUndone ==
    pc = "exited" /\ exc \notin {None, "RuntimeError"} =>
        committed.exists = atEntry.exists

\* C4 as claimed: whenever __exit__ has finished, the connection is closed
\* and the handler is detached.
C4_ExitAlwaysReleases ==
    pc = "exited" => conn = "closed" /\ ~handlers

----------------------------------------------------------------------------
(* Batch loader claims, checked under SpecPop: one populate_table call *)

\* the row batches of the bulk inserts issued so far, in call order
Batches == [i \in 1..Len(calls) |-> calls[i][3]]

RECURSIVE Flatten(_)
Flatten(batches) == IF batches = <<>> THEN <<>> ELSE Head(batches) \o Flatten(Tail(batches))

\* the values of bound rows, in column order
Unbound(rows, columns) ==
    [i \in 1..Len(rows) |-> [j \in 1..Len(columns) |-> rows[i][columns[j]]]]

\* populate_table was called for a table of the registry
PopKnown == pop.table_name \in MetadataTables

\* the loop and the flush after it ran to their end (an empty input then
\* fails on the unbound count, after the flush)
PopFlushed ==
    /\ PopKnown
    /\ pc # "populate"
    /\ pop.idx = Len(pop.lines)
    /\ exc \in {None, "UnboundLocalError"}

WellFormed(input, t) == \A i \in 1..Len(input) : Len(input[i]) = Len(Columns(t))

NoSelfReference(t) == \A fk \in ForeignKeys(t) : fk[2] # t

Ceil(n, c) == (n + c - 1) \div c

\* C5: with N input rows and capacity C, populate_table issues
\* ceil(N/C) bulk inserts: all but the last carry C rows, the last carries
\* N - C*(ceil(N/C)-1); no insert carries no row or more than C rows and the
\* buffer never holds more than C rows.
C5_BatchSizes ==
    PopKnown =>
        LET C == insert_buffer_size
            N == Len(pop.input)
            size(i) == Len(Batches[i])
            n == Len(calls)
        IN  /\ pop.peak <= C
            /\ Len(pop.buffer) <= C
            /\ \A i \in 1..n : size(i) >= 1 /\ size(i) <= C
            /\ pc = "populate" =>
                  /\ n = pop.idx \div C
                  /\ \A i \in 1..n : size(i) = C
            /\ PopFlushed =>
                  /\ n = Ceil(N, C)
                  /\ \A i \in 1..(n - 1) : size(i) = C
                  /\ n > 0 => size(n) = N - C * (n - 1)

\* the long input went in with full batches and a remainder
C5_Witness ==
    /\ PopFlushed
    /\ exc = None
    /\ insert_buffer_size = DefaultBufferSize
    /\ Len(pop.input) = BigRows
    /\ Len(calls) = 3
    /\ Len(Batches[1]) = DefaultBufferSize
    /\ Len(Batches[2]) = DefaultBufferSize
    /\ Len(Batches[3]) = BigRows - 2 * DefaultBufferSize

\* C6: for a table without a self-referencing foreign key and rows of the
\* table's arity, the batches of the bulk inserts, concatenated in call
\* order, are the input rows in input order: a prefix of them while the loop
\* runs, all of them when the call is through.
C6_OrderPreserved ==
    PopKnown /\ NoSelfReference(pop.table_name) /\ WellFormed(pop.input, pop.table_name) =>
        LET columns == Columns(pop.table_name)
        IN  /\ pc = "populate" =>
                  Unbound(Flatten(Batches) \o pop.buffer, columns)
                      = SubSeq(pop.input, 1, pop.idx)
            /\ PopFlushed => Unbound(Flatten(Batches), columns) = pop.input

\* five rows, not all equal, went through three inserts
C6_Witness ==
    /\ PopFlushed
    /\ exc = None
    /\ pop.table_name = PlainTable
    /\ WellFormed(pop.input, PlainTable)
    /\ Len(pop.input) = 5
    /\ pop.input[1] # pop.input[2]
    /\ Len(calls) = 3

\* C7: for the self-referencing table, when the call is through, every
\* input row was inserted, and every inserted row whose parent pointer is
\* not null and is the key of an input row comes strictly after an inserted
\* row with that key, in the concatenation of the batches.
C7_ParentsFirst ==
    PopFlushed /\ pop.table_name = TreeTable =>
        LET flat == Flatten(Batches)
            keys == {pop.input[i][1] : i \in 1..Len(pop.input)}
        IN  /\ Len(flat) = Len(pop.input)
            /\ \A q \in 1..Len(flat) :
                  flat[q].loc_nu_sub # None /\ flat[q].loc_nu_sub \in keys =>
                      \E r \in 1..(q - 1) : flat[r].loc_nu = flat[q].loc_nu_sub

\* a child given before its parent, with a root and an absent parent
\* around, was inserted in separate batches
C7_Witness ==
    /\ PopFlushed
    /\ exc = None
    /\ pop.table_name = TreeTable
    /\ insert_buffer_size = 1
    /\ pop.input = << <<"1", "n", "2">>, <<"2", "n", "9">>, <<"1", "n", None>> >>

\* the input has rows k1 -> k2 -> ... -> kn -> k1 (n = 1: a row that is its
\* own parent)
InputCyclic(input, fk_index) ==
    LET keys == {input[i][1] : i \in 1..Len(input)}
        edge(a, b) == \E i \in 1..Len(input) : input[i][1] = a /\ input[i][fk_index] = b
    IN  \E n \in 1..Cardinality(keys) :
           \E path \in [1..n -> keys] :
              \A i \in 1..n : edge(path[i], path[(i % n) + 1])

C9_MalformedRowNeverBound ==
    PopKnown =>
        \A i \in 1..pop.idx : Len(pop.lines[i]) = Len(Columns(pop.table_name))

\* C10: populate_table with a name the registry does not hold fails with
\* KeyError (NotFound) with no row taken from the input, no insert issued
\* and nothing stored.
C10_UnknownTableFailsFirst ==
    pop.table_name \notin MetadataTables \cup {None} =>
        /\ exc = "KeyError"
        /\ pc # "populate"
        /\ consumed = 0
        /\ calls = <<>>
        /\ working = atEntry

\* the call for "ghost" with one row failed
C10_Witness ==
    /\ pop.table_name = GhostTable
    /\ Len(pop.input) = 1
    /\ exc = "KeyError"
    /\ consumed = 0

----------------------------------------------------------------------------
(* Audit and logging claims *)

\* the rows of the audit table as self.connection sees them
AuditRows(db) == db.rows[AuditTable]

\* C11 as claimed: register_update inserts one audit row, and its text is the
\* newline-join of the records the sink held when register_update was called,
\* with nothing added.
C11_AuditTextIsSinkAtCall ==
    [][(ops' = ops + 1 /\ exc' = None /\ RegisterUpdate) =>
         /\ Len(AuditRows(working')) = Len(AuditRows(working)) + 1
         /\ AuditRows(working')[Len(AuditRows(working'))].logs = get_logs(log_records)]_vars

\* C11 amended: register_update inserts exactly one audit row and changes no
\* other; its text is the newline-join, in emission order, of the records the
\* sink held at the call followed, while the handler is attached, by the
\* record of register_update's own first message.
C11_AuditTextIsSinkWhenRead ==
    [][(ops' = ops + 1 /\ exc' = None /\ RegisterUpdate) =>
         LET own == Format("INFO", "Recording DNE database update")
             read == IF handlers THEN Append(log_records, own) ELSE log_records
         IN  /\ AuditRows(working') = Append(AuditRows(working),
                                             [update_date |-> "now", logs |-> get_logs(read)])
             /\ \A t \in MetadataTables \ {AuditTable} : working'.rows[t] = working.rows[t]
             /\ working'.exists = working.exists]_vars

\* after INFO a, INFO b and ERROR c were logged on the module's logger in the
\* first scope, the audit entry holds them between the scope's and
\* register_update's own records
C11_Witness ==
    /\ Len(AuditRows(working)) = 1
    /\ AuditRows(working)[1].logs =
          "INFO: Connecting to database...\nINFO: a\nINFO: b\nERROR: c\n"
          \o "INFO: Recording DNE database update"

----------------------------------------------------------------------------
(* Table lifecycle claims, checked under SpecLife *)

\* s read from its last element to its first
Backwards(s) == [i \in 1..Len(s) |-> s[Len(s) + 1 - i]]

\* the tables of the statements of this kind among stmts, in the order issued
Issued(stmts, kind) ==
    LET of == SelectSeq(stmts, LAMBDA c : c[1] = kind)
    IN  [i \in 1..Len(of) |-> of[i][2]]

RECURSIVE FirstVisits(_)
\* s without the later occurrences of an element
FirstVisits(s) ==
    IF s = <<>> THEN <<>>
    ELSE <<Head(s)>> \o FirstVisits(SelectSeq(Tail(s), LAMBDA t : t # Head(s)))

\* C12: clean_tables(names) visits the tables in the reverse of the order
\* given (the child before the parent for [parent, child]), issues a bulk
\* delete only for a table whose row count is nonzero and at most one per
\* table, and when it returns every named table is empty and no other table
\* has changed.
C12_CleanReverseOnce ==
    [][\A names \in LifeLists :
         (CleanTables(names) /\ exc' = None) =>
            /\ Issued(calls', "count") = Backwards(names)
            /\ Issued(calls', "delete") =
                  FirstVisits(SelectSeq(Backwards(names),
                                        LAMBDA t : Len(working.rows[t]) # 0))
            /\ \A t \in MetadataTables :
                  Len(SelectSeq(Issued(calls', "delete"), LAMBDA u : u = t)) <= 1
            /\ \A i \in 1..Len(names) : working'.rows[names[i]] = <<>>
            /\ \A t \in MetadataTables \ SeqToSet(names) :
                  working'.rows[t] = working.rows[t]
            /\ working'.exists = working.exists]_vars

\* clean_tables([parent, child]) on the loaded database has returned: the
\* child was counted and deleted, then the parent
C12_Witness ==
    /\ calls = << <<"count", PlainTable>>, <<"delete", PlainTable>>,
                  <<"count", TreeTable>>, <<"delete", TreeTable>> >>
    /\ exc = None
    /\ working.rows[PlainTable] = <<>>
    /\ working.rows[TreeTable] = <<>>
    /\ atEntry.rows[PlainTable] # <<>>

\* C13: drop_tables([]) changes no table and logs nothing; drop_tables of
\* registry tables the database does not hold returns without an error and a
\* change; a drop_tables(names) that returned has dropped the tables the
\* database held in the reverse of the order given, and the same call again
\* returns without a statement, an error or a change.
C13_DropIdempotent ==
    [][\A names \in LifeLists :
         DropTables(names) =>
            /\ names = <<>> =>
                  /\ working' = working
                  /\ log_records' = log_records
                  /\ calls' = <<>>
                  /\ exc' = None
            /\ (\A i \in 1..Len(names) : names[i] \in MetadataTables \ working.exists) =>
                  /\ working' = working
                  /\ calls' = <<>>
                  /\ exc' = None
            /\ exc' = None =>
                  /\ Issued(calls', "drop") =
                        FirstVisits(SelectSeq(Backwards(names),
                                              LAMBDA t : t \in working.exists))
                  /\ working'.exists = working.exists \ SeqToSet(names)
                  /\ \A out \in drop_tables(names, working') :
                        out.db = working' /\ out.calls = <<>> /\ out.err = None]_vars

\* drop_tables([parent, child]) on the loaded database has returned: the child
\* was dropped, then the parent
C13_Witness ==
    /\ calls = << <<"drop", PlainTable>>, <<"drop", TreeTable>> >>
    /\ exc = None
    /\ working.exists = {AuditTable}
    /\ atEntry.exists = MetadataTables

----------------------------------------------------------------------------
(* Log sink claims *)

\* the scope of this writer is open
ScopeOpen == pc \in {"body", "populate"}

\* the records after the first Len(before) of after
Added(before, after) == SubSeq(after, Len(before) + 1, Len(after))

\* before is the beginning of after
Extends(after, before) ==
    /\ Len(before) <= Len(after)
    /\ SubSeq(after, 1, Len(before)) = before

\* C14 as claimed, for a scope whose handler is attached: while the scope is
\* open, every diagnostic event emitted in the process, on whichever logger,
\* is appended to the scope's sink.
C14_EveryEventCaptured ==
    [][\A channel \in Loggers :
         (ScopeOpen /\ handlers /\ ProcessEmits(channel)) =>
            LET ev == Events[(events % Len(Events)) + 1]
            IN  log_records' = Append(log_records, Format(ev.level, ev.msg))]_vars

\* C15 as claimed: in every state in which a scope is open on the writer,
\* the writer's handler is attached.
C15_OpenScopeAttached == ScopeOpen => handlers

\* C16: register_update only appends to the sink: the records held before
\* the call are held after it, in the same order, followed by at most the
\* records of register_update's own two messages.
C16_RegisterOnlyAppends ==
    [][(ops' = ops + 1 /\ RegisterUpdate) =>
         /\ Extends(log_records', log_records)
         /\ \A i \in 1..Len(Added(log_records, log_records')) :
               Added(log_records, log_records')[i] \in
                  {Format("INFO", "Recording DNE database update"),
                   Format("INFO", "Update successfully recorded")}]_vars

\* register_update returned in the first scope: the scope's record is
\* followed by register_update's two
C16_Witness ==
    /\ log_records = <<Format("INFO", "Connecting to database..."),
                       Format("INFO", "Recording DNE database update"),
                       Format("INFO", "Update successfully recorded")>>
    /\ AuditRows(working) # <<>>
    /\ exc = None

\* C17 as claimed: the audit entry register_update writes in a second or
\* later scope is made of records emitted in that scope only: its text is
\* the newline-join of the first records the sink received since the scope
\* was entered.
C17_AuditOfScopeIsFresh ==
    [][(ops' = ops + 1 /\ exc' = None /\ scopes >= 2 /\ RegisterUpdate) =>
         LET fresh == SubSeq(log_records', sinkAtEntry + 1, Len(log_records'))
         IN  \E k \in 0..Len(fresh) :
                AuditRows(working')[Len(AuditRows(working'))].logs
                   = get_logs(SubSeq(fresh, 1, k))]_vars

\* C18 as claimed: while both writers have a scope open, the messages an
\* operation of either writer logs are appended to both sinks, in the same
\* order.
C18_BothSinksGetEveryMessage ==
    [][(ScopeOpen /\ peer.pc = "body" /\ (RegisterUpdate \/ PeerOperation)) =>
         /\ Extends(log_records', log_records)
         /\ Extends(peer'.log_records, peer.log_records)
         /\ Added(log_records, log_records') # <<>>
         /\ Added(log_records, log_records') = Added(peer.log_records, peer'.log_records)]_vars

----------------------------------------------------------------------------
(* Batch loader claims on the ends of the input range, checked under SpecPop *)

\* C19 as claimed: populate_table for a table of the registry and rows of
\* the right size, once its loop and flush have run, has raised nothing;
\* for no rows it has issued no insert and logged a total of 0 rows.
C19_EveryInputCompletes ==
    (PopFlushed /\ WellFormed(pop.input, pop.table_name)) =>
        /\ exc = None
        /\ pop.input = <<>> =>
              /\ calls = <<>>
              /\ Logged("Inserted 0 rows into table \"" \o pop.table_name \o "\"")

\* the rows of lines whose key is k, in order
WithKey(lines, k) == SelectSeq(lines, LAMBDA line : line[1] = k)

\* how many times row occurs in lines
Occurrences(lines, row) == Cardinality({i \in 1..Len(lines) : lines[i] = row})

\* sort_topologically returned: populate_table for the self-referencing table
\* got past the reordering
Reordered ==
    /\ pop.table_name = TreeTable
    /\ exc \notin {"CycleError", "IndexError"}

\* C20: for the self-referencing table, an input without a cycle (each row
\* with a parent pointer) is reordered, and the reordered rows are a
\* permutation of the input rows: each row occurs as often as in the input,
\* also with shared keys, null parents and parents absent from the input,
\* and the rows that share a key keep their input order.
C20_StablePermutation ==
    pop.table_name = TreeTable =>
        /\ ((\A i \in 1..Len(pop.input) : Len(pop.input[i]) >= 3)
             /\ ~InputCyclic(pop.input, 3)) => Reordered
        /\ Reordered =>
              /\ Len(pop.lines) = Len(pop.input)
              /\ \A row \in SeqToSet(pop.input) \cup SeqToSet(pop.lines) :
                    Occurrences(pop.lines, row) = Occurrences(pop.input, row)
              /\ \A k \in TreeKeys : WithKey(pop.lines, k) = WithKey(pop.input, k)

\* a child with a null-parent sibling of the same key and a parent absent
\* from the input came first and was moved behind its parent; the two rows
\* that share a key kept their order
C20_Witness ==
    /\ pop.input = << <<"1", "n", "2">>, <<"1", "n", None>>, <<"2", "n", "9">> >>
    /\ pop.lines = << <<"2", "n", "9">>, <<"1", "n", "2">>, <<"1", "n", None>> >>
    /\ exc = None

====
